---- MODULE Spec2Model ----
(***************************************************************************)
(* Model of the bible-data reference parsers: the book-abbreviation        *)
(* recogniser (src/lib.rs) and the layered Chapter / Verse / Range parsers *)
(* and renderers (src/structs/*.rs).  Text is a sequence of one-character  *)
(* strings; every parser is computed character by character as the code    *)
(* computes it.                                                            *)
(***************************************************************************)
EXTENDS Integers, Sequences, FiniteSets, TLC

(***************************************************************************)
(* Canonical tables.  TLA+ sequences are 1-based: the book with 0-based    *)
(* index i is entry i + 1.                                                 *)
(***************************************************************************)
BOOK_NAMES ==
  <<
    <<"G", "e", "n", "e", "s", "i", "s">>,
    <<"E", "x", "o", "d", "u", "s">>,
    <<"L", "e", "v", "i", "t", "i", "c", "u", "s">>,
    <<"N", "u", "m", "b", "e", "r", "s">>,
    <<"D", "u", "t", "e", "r", "o", "n", "o", "m", "y">>,
    <<"J", "o", "s", "h", "u", "a">>,
    <<"J", "u", "d", "g", "e", "s">>,
    <<"R", "u", "t", "h">>,
    <<"1", " ", "S", "a", "m", "u", "e", "l">>,
    <<"2", " ", "S", "a", "m", "u", "e", "l">>,
    <<"1", " ", "K", "i", "n", "g", "s">>,
    <<"2", " ", "K", "i", "n", "g", "s">>,
    <<"1", " ", "C", "h", "r", "o", "n", "i", "c", "l", "e", "s">>,
    <<"2", " ", "C", "h", "r", "o", "n", "i", "c", "l", "e", "s">>,
    <<"E", "z", "r", "a">>,
    <<"N", "e", "h", "e", "m", "i", "a", "h">>,
    <<"E", "s", "t", "h", "e", "r">>,
    <<"J", "o", "b">>,
    <<"P", "s", "a", "l", "m", "s">>,
    <<"P", "r", "o", "v", "e", "r", "b", "s">>,
    <<"E", "c", "c", "e", "s", "i", "a", "s", "t", "e", "s">>,
    <<"S", "o", "n", "g", " ", "o", "f", " ", "S", "o", "n", "g", "s">>,
    <<"I", "s", "a", "i", "a", "h">>,
    <<"J", "e", "r", "e", "m", "i", "a", "h">>,
    <<"L", "a", "m", "e", "n", "t", "a", "t", "i", "o", "n", "s">>,
    <<"E", "z", "e", "k", "i", "e", "l">>,
    <<"D", "a", "n", "i", "e", "l">>,
    <<"H", "o", "s", "e", "a">>,
    <<"J", "o", "e", "l">>,
    <<"A", "m", "o", "s">>,
    <<"O", "b", "a", "d", "i", "a", "h">>,
    <<"J", "o", "n", "a", "h">>,
    <<"M", "i", "c", "a", "h">>,
    <<"N", "a", "h", "u", "m">>,
    <<"H", "a", "b", "a", "k", "k", "u", "k">>,
    <<"Z", "e", "p", "h", "a", "n", "i", "a", "h">>,
    <<"H", "a", "g", "g", "a", "i">>,
    <<"Z", "e", "c", "h", "a", "r", "i", "a", "h">>,
    <<"M", "a", "l", "a", "c", "h", "i">>,
    <<"M", "a", "t", "t", "h", "e", "w">>,
    <<"M", "a", "r", "k">>,
    <<"L", "u", "k", "e">>,
    <<"J", "o", "h", "n">>,
    <<"A", "c", "t", "s">>,
    <<"R", "o", "m", "a", "n", "s">>,
    <<"1", " ", "C", "o", "r", "i", "n", "t", "h", "i", "a", "n", "s">>,
    <<"2", " ", "C", "o", "r", "i", "n", "t", "h", "i", "a", "n", "s">>,
    <<"G", "a", "l", "a", "t", "i", "a", "n", "s">>,
    <<"E", "p", "h", "e", "s", "i", "a", "n", "s">>,
    <<"P", "h", "i", "l", "i", "p", "p", "i", "a", "n", "s">>,
    <<"C", "o", "l", "o", "s", "s", "i", "a", "n", "s">>,
    <<"1", " ", "T", "h", "e", "s", "s", "a", "l", "o", "n", "i", "a", "n", "s">>,
    <<"2", " ", "T", "h", "e", "s", "s", "a", "l", "o", "n", "i", "a", "n", "s">>,
    <<"1", " ", "T", "i", "m", "o", "t", "h", "y">>,
    <<"2", " ", "T", "i", "m", "o", "t", "h", "y">>,
    <<"T", "i", "t", "u", "s">>,
    <<"P", "h", "i", "l", "e", "m", "o", "n">>,
    <<"H", "e", "b", "r", "e", "w", "s">>,
    <<"J", "a", "m", "e", "s">>,
    <<"1", " ", "P", "e", "t", "e", "r">>,
    <<"2", " ", "P", "e", "t", "e", "r">>,
    <<"1", " ", "J", "o", "h", "n">>,
    <<"2", " ", "J", "o", "h", "n">>,
    <<"3", " ", "J", "o", "h", "n">>,
    <<"J", "u", "d", "e">>,
    <<"R", "e", "v", "e", "l", "a", "t", "i", "o", "n">>
  >>

BOOK_ABBREVS ==
  <<
    <<"G", "e">>, <<"E", "x">>, <<"L", "e", "v">>, <<"N", "u">>,
    <<"D", "t">>, <<"J", "o", "s">>, <<"J", "d", "g">>, <<"R", "u">>,
    <<"1", "S", "a">>, <<"2", "S", "a">>, <<"1", "K", "i">>, <<"2", "K", "i">>,
    <<"1", "C", "h">>, <<"2", "C", "h">>, <<"E", "z", "r">>, <<"N", "e">>,
    <<"E", "s", "t">>, <<"J", "o", "b">>, <<"P", "s">>, <<"P", "r">>,
    <<"E", "c", "c">>, <<"S", "S">>, <<"I", "s", "a">>, <<"J", "e", "r">>,
    <<"L", "a">>, <<"E", "z", "e">>, <<"D", "a">>, <<"H", "o", "s">>,
    <<"J", "o", "e", "l">>, <<"A", "m">>, <<"O", "b">>, <<"J", "n", "h">>,
    <<"M", "i", "c">>, <<"N", "a">>, <<"H", "a", "b">>, <<"Z", "e", "p">>,
    <<"H", "a", "g">>, <<"Z", "e", "c">>, <<"M", "a", "l">>, <<"M", "t">>,
    <<"M", "k">>, <<"L", "k">>, <<"J", "n">>, <<"A", "c">>,
    <<"R", "o">>, <<"1", "C", "o">>, <<"2", "C", "o">>, <<"G", "a", "l">>,
    <<"E", "p", "h">>, <<"P", "h", "p">>, <<"C", "o", "l">>, <<"1", "T", "h">>,
    <<"2", "T", "h">>, <<"1", "T", "i">>, <<"2", "T", "i">>, <<"T", "i", "t">>,
    <<"P", "h", "m">>, <<"H", "e", "b">>, <<"J", "a", "s">>, <<"1", "P", "e">>,
    <<"2", "P", "e">>, <<"1", "J", "n">>, <<"2", "J", "n">>, <<"3", "J", "n">>,
    <<"J", "u", "d", "e">>, <<"R", "e", "v">>
  >>

\* Chapter count per book (the table BOOK_CHAPTERS read by number_of_chapters).
BOOK_CHAPTERS ==
  <<
    50, 40, 27, 36, 34, 24, 21, 4, 31, 24, 22, 25, 29, 36,
    10, 13, 10, 42, 150, 31, 12, 8, 66, 52, 5, 48, 12, 14,
    3, 9, 1, 4, 7, 3, 3, 3, 2, 14, 4, 28, 16, 24,
    21, 28, 16, 16, 13, 6, 6, 4, 4, 5, 3, 6, 4, 3,
    1, 13, 5, 5, 3, 5, 1, 1, 1, 22
  >>

NumBooks == 66

U8Max == 255

(***************************************************************************)
(* Option and Result values.                                               *)
(***************************************************************************)
None == [tag |-> "None"]

Some(v) == [tag |-> "Some", val |-> v]

Ok(v) == [tag |-> "Ok", val |-> v]

Err(kind, message) == [tag |-> "Err", kind |-> kind, message |-> message]

ErrData(kind, data) == [tag |-> "Err", kind |-> kind, data |-> data]

IsOk(r) == r.tag = "Ok"

IsErr(r) == r.tag = "Err"

IsSome(r) == r.tag = "Some"

\* Result::ok(): Ok(v) becomes Some(v), any Err becomes None.
ok(r) == IF r.tag = "Ok" THEN Some(r.val) ELSE None

(***************************************************************************)
(* Strings.                                                                *)
(***************************************************************************)
EOF == "<eof>"

\* chars.next() for the i-th call on a fresh iterator: the i-th character,
\* or EOF when the text is exhausted.
CharAt(text, i) == IF i <= Len(text) THEN text[i] ELSE EOF

\* str::find of a one-character pattern: 1-based position of the first
\* occurrence, 0 when there is none.
RECURSIVE FindFrom(_, _, _)
FindFrom(s, c, i) ==
  IF i > Len(s) THEN 0
  ELSE IF s[i] = c THEN i
  ELSE FindFrom(s, c, i + 1)

find(s, c) == FindFrom(s, c, 1)

\* &s[..pos] and &s[pos + 1..] for a match at 1-based position p.
Before(s, p) == SubSeq(s, 1, p - 1)

After(s, p) == SubSeq(s, p + 1, Len(s))

(***************************************************************************)
(* The book-abbreviation recogniser.                                       *)
(***************************************************************************)
\* Variant that accepts the match only at end of input.
some_at_end_eof_only(text, i, val) ==
  IF CharAt(text, i) = EOF THEN Some(val) ELSE None

\* Variant that accepts the match whatever character follows.
some_at_end_unchecked(text, i, val) == Some(val)

\* some_at_end!(chars, val): the match is valid at end of input or before a space.
some_at_end(text, i, val) ==
  IF CharAt(text, i) = EOF THEN Some(val)
  ELSE IF CharAt(text, i) = " " THEN Some(val)
  ELSE None

\* some_at_end!(chars, val, opt): as above, or one optional letter opt, after
\* which the macro expands to some_at_end!(chars, 0).
some_at_end_opt(text, i, val, opt) ==
  IF CharAt(text, i) = EOF THEN Some(val)
  ELSE IF CharAt(text, i) = " " THEN Some(val)
  ELSE IF CharAt(text, i) = opt THEN some_at_end(text, i + 1, 0)
  ELSE None

parse_book_abbrev(text) ==
  CASE
       CharAt(text, 1) = "M" -> (CASE
         CharAt(text, 2) = "t" -> some_at_end(text, 3, 39)
      [] CharAt(text, 2) = "k" -> some_at_end(text, 3, 40)
      [] CharAt(text, 2) = "a" -> (CASE
           CharAt(text, 3) = "l" -> some_at_end(text, 4, 38)
        [] OTHER -> None)
      [] CharAt(text, 2) = "i" -> (CASE
           CharAt(text, 3) = "c" -> some_at_end(text, 4, 32)
        [] OTHER -> None)
      [] OTHER -> None)
    [] CharAt(text, 1) = "L" -> (CASE
         CharAt(text, 2) = "k" -> some_at_end(text, 3, 41)
      [] CharAt(text, 2) = "e" -> (CASE
           CharAt(text, 3) = "v" -> some_at_end(text, 4, 2)
        [] OTHER -> None)
      [] CharAt(text, 2) = "a" -> some_at_end_opt(text, 3, 24, "m")
      [] OTHER -> None)
    [] CharAt(text, 1) = "J" -> (CASE
         CharAt(text, 2) = "n" -> (CASE
           CharAt(text, 3) = EOF -> Some(42)
        [] CharAt(text, 3) = " " -> Some(42)
        [] CharAt(text, 3) = "h" -> some_at_end(text, 4, 31)
        [] OTHER -> None)
      [] CharAt(text, 2) = "a" -> (CASE
           CharAt(text, 3) = "s" -> some_at_end(text, 4, 58)
        [] OTHER -> None)
      [] CharAt(text, 2) = "o" -> (CASE
           CharAt(text, 3) = "s" -> some_at_end(text, 4, 5)
        [] CharAt(text, 3) = "b" -> some_at_end(text, 4, 17)
        [] CharAt(text, 3) = "e" -> (CASE
             CharAt(text, 4) = "l" -> some_at_end(text, 5, 28)
          [] OTHER -> None)
        [] OTHER -> None)
      [] CharAt(text, 2) = "d" -> (CASE
           CharAt(text, 3) = "g" -> some_at_end(text, 4, 6)
        [] OTHER -> None)
      [] CharAt(text, 2) = "e" -> (CASE
           CharAt(text, 3) = "r" -> some_at_end(text, 4, 23)
        [] OTHER -> None)
      [] CharAt(text, 2) = "u" -> (CASE
           CharAt(text, 3) = "d" -> (CASE
             CharAt(text, 4) = "e" -> some_at_end(text, 5, 64)
          [] OTHER -> None)
        [] OTHER -> None)
      [] OTHER -> None)
    [] CharAt(text, 1) = "E" -> (CASE
         CharAt(text, 2) = "p" -> (CASE
           CharAt(text, 3) = "h" -> some_at_end(text, 4, 48)
        [] OTHER -> None)
      [] CharAt(text, 2) = "x" -> some_at_end(text, 3, 1)
      [] CharAt(text, 2) = "z" -> (CASE
           CharAt(text, 3) = "r" -> some_at_end(text, 4, 14)
        [] CharAt(text, 3) = "e" -> some_at_end(text, 4, 25)
        [] OTHER -> None)
      [] CharAt(text, 2) = "s" -> (CASE
           CharAt(text, 3) = "t" -> some_at_end(text, 4, 16)
        [] OTHER -> None)
      [] CharAt(text, 2) = "c" -> (CASE
           CharAt(text, 3) = "c" -> some_at_end(text, 4, 20)
        [] OTHER -> None)
      [] OTHER -> None)
    [] CharAt(text, 1) = "G" -> (CASE
         CharAt(text, 2) = "e" -> some_at_end_opt(text, 3, 0, "n")
      [] CharAt(text, 2) = "a" -> (CASE
           CharAt(text, 3) = "l" -> some_at_end(text, 4, 47)
        [] OTHER -> None)
      [] OTHER -> None)
    [] CharAt(text, 1) = "P" -> (CASE
         CharAt(text, 2) = "s" -> some_at_end(text, 3, 18)
      [] CharAt(text, 2) = "r" -> some_at_end(text, 3, 19)
      [] CharAt(text, 2) = "h" -> (CASE
           CharAt(text, 3) = "p" -> some_at_end(text, 4, 49)
        [] CharAt(text, 3) = "m" -> some_at_end(text, 4, 56)
        [] OTHER -> None)
      [] OTHER -> None)
    [] CharAt(text, 1) = "C" -> (CASE
         CharAt(text, 2) = "o" -> (CASE
           CharAt(text, 3) = "l" -> some_at_end(text, 4, 50)
        [] OTHER -> None)
      [] OTHER -> None)
    [] CharAt(text, 1) = "R" -> (CASE
         CharAt(text, 2) = "o" -> some_at_end(text, 3, 44)
      [] CharAt(text, 2) = "e" -> (CASE
           CharAt(text, 3) = "v" -> some_at_end(text, 4, 65)
        [] OTHER -> None)
      [] CharAt(text, 2) = "u" -> some_at_end(text, 3, 7)
      [] OTHER -> None)
    [] CharAt(text, 1) = "H" -> (CASE
         CharAt(text, 2) = "e" -> (CASE
           CharAt(text, 3) = "b" -> some_at_end(text, 4, 57)
        [] OTHER -> None)
      [] CharAt(text, 2) = "a" -> (CASE
           CharAt(text, 3) = "b" -> some_at_end(text, 4, 34)
        [] CharAt(text, 3) = "g" -> some_at_end(text, 4, 36)
        [] OTHER -> None)
      [] CharAt(text, 2) = "o" -> (CASE
           CharAt(text, 3) = "s" -> some_at_end(text, 4, 27)
        [] OTHER -> None)
      [] OTHER -> None)
    [] CharAt(text, 1) = "N" -> (CASE
         CharAt(text, 2) = "u" -> some_at_end_opt(text, 3, 3, "m")
      [] CharAt(text, 2) = "e" -> some_at_end(text, 3, 15)
      [] CharAt(text, 2) = "a" -> some_at_end(text, 3, 33)
      [] OTHER -> None)
    [] CharAt(text, 1) = "D" -> (CASE
         CharAt(text, 2) = "a" -> some_at_end_opt(text, 3, 26, "n")
      [] CharAt(text, 2) = "t" -> some_at_end(text, 3, 4)
      [] OTHER -> None)
    [] CharAt(text, 1) = "1" -> (CASE
         CharAt(text, 2) = "S" -> (CASE
           CharAt(text, 3) = "a" -> some_at_end(text, 4, 8)
        [] OTHER -> None)
      [] CharAt(text, 2) = "K" -> (CASE
           CharAt(text, 3) = "i" -> some_at_end(text, 4, 10)
        [] OTHER -> None)
      [] CharAt(text, 2) = "C" -> (CASE
           CharAt(text, 3) = "h" -> some_at_end(text, 4, 12)
        [] CharAt(text, 3) = "o" -> some_at_end(text, 4, 45)
        [] OTHER -> None)
      [] CharAt(text, 2) = "T" -> (CASE
           CharAt(text, 3) = "h" -> some_at_end(text, 4, 51)
        [] CharAt(text, 3) = "i" -> some_at_end(text, 4, 53)
        [] OTHER -> None)
      [] CharAt(text, 2) = "P" -> (CASE
           CharAt(text, 3) = "e" -> some_at_end(text, 4, 59)
        [] OTHER -> None)
      [] CharAt(text, 2) = "J" -> (CASE
           CharAt(text, 3) = "n" -> some_at_end(text, 4, 61)
        [] OTHER -> None)
      [] OTHER -> None)
    [] CharAt(text, 1) = "2" -> (CASE
         CharAt(text, 2) = "S" -> (CASE
           CharAt(text, 3) = "a" -> some_at_end(text, 4, 9)
        [] OTHER -> None)
      [] CharAt(text, 2) = "K" -> (CASE
           CharAt(text, 3) = "i" -> some_at_end(text, 4, 11)
        [] OTHER -> None)
      [] CharAt(text, 2) = "C" -> (CASE
           CharAt(text, 3) = "h" -> some_at_end(text, 4, 13)
        [] CharAt(text, 3) = "o" -> some_at_end(text, 4, 46)
        [] OTHER -> None)
      [] CharAt(text, 2) = "T" -> (CASE
           CharAt(text, 3) = "h" -> some_at_end(text, 4, 52)
        [] CharAt(text, 3) = "i" -> some_at_end(text, 4, 54)
        [] OTHER -> None)
      [] CharAt(text, 2) = "P" -> (CASE
           CharAt(text, 3) = "e" -> some_at_end(text, 4, 60)
        [] OTHER -> None)
      [] CharAt(text, 2) = "J" -> (CASE
           CharAt(text, 3) = "n" -> some_at_end(text, 4, 62)
        [] OTHER -> None)
      [] OTHER -> None)
    [] CharAt(text, 1) = "I" -> (CASE
         CharAt(text, 2) = "s" -> (CASE
           CharAt(text, 3) = "a" -> some_at_end(text, 4, 22)
        [] OTHER -> None)
      [] OTHER -> None)
    [] CharAt(text, 1) = "A" -> (CASE
         CharAt(text, 2) = "c" -> some_at_end(text, 3, 43)
      [] CharAt(text, 2) = "m" -> some_at_end(text, 3, 29)
      [] OTHER -> None)
    [] CharAt(text, 1) = "Z" -> (CASE
         CharAt(text, 2) = "e" -> (CASE
           CharAt(text, 3) = "c" -> some_at_end(text, 4, 37)
        [] CharAt(text, 3) = "p" -> some_at_end(text, 4, 35)
        [] OTHER -> None)
      [] OTHER -> None)
    [] CharAt(text, 1) = "T" -> (CASE
         CharAt(text, 2) = "i" -> (CASE
           CharAt(text, 3) = "t" -> some_at_end(text, 4, 55)
        [] OTHER -> None)
      [] OTHER -> None)
    [] CharAt(text, 1) = "3" -> (CASE
         CharAt(text, 2) = "J" -> (CASE
           CharAt(text, 3) = "n" -> some_at_end(text, 4, 63)
        [] OTHER -> None)
      [] OTHER -> None)
    [] CharAt(text, 1) = "S" -> (CASE
         CharAt(text, 2) = "S" -> some_at_end(text, 3, 21)
      [] CharAt(text, 2) = "o" -> some_at_end_opt(text, 3, 21, "S")
      [] OTHER -> None)
    [] CharAt(text, 1) = "O" -> (CASE
         CharAt(text, 2) = "b" -> some_at_end(text, 3, 30)
      [] OTHER -> None)
    [] OTHER -> None

(***************************************************************************)
(* u8 parsing and formatting (the standard library's u8::from_str and      *)
(* Display), computed digit by digit.                                      *)
(***************************************************************************)
Digits == <<"0", "1", "2", "3", "4", "5", "6", "7", "8", "9">>

IsDigit(c) == \E d \in 1..10 : Digits[d] = c

DigitVal(c) == (CHOOSE d \in 1..10 : Digits[d] = c) - 1

\* Accumulates the digits from position i on; -1 for an invalid digit or for a
\* value that no longer fits a u8 (checked at every step, as checked_mul/add do).
RECURSIVE ParseDigits(_, _, _)
ParseDigits(s, i, acc) ==
  IF i > Len(s) THEN acc
  ELSE IF ~IsDigit(s[i]) THEN -1
  ELSE IF acc * 10 + DigitVal(s[i]) > U8Max THEN -1
  ELSE ParseDigits(s, i + 1, acc * 10 + DigitVal(s[i]))

\* u8::from_str: empty input, a lone sign, a '-' or any non-digit is an error;
\* one leading '+' is accepted; Some(n) on success.
u8_checked(n) == IF n < 0 THEN None ELSE Some(n)

u8_from_str(s) ==
  IF Len(s) = 0 THEN None
  ELSE IF Len(s) = 1 /\ s[1] \in {"+", "-"} THEN None
  ELSE u8_checked(ParseDigits(IF s[1] = "+" THEN Tail(s) ELSE s, 1, 0))

\* Display of an unsigned integer: decimal, no sign, no leading zeros.
RECURSIVE to_string(_)
to_string(n) ==
  IF n < 10 THEN <<Digits[n + 1]>>
  ELSE to_string(n \div 10) \o <<Digits[(n % 10) + 1]>>

(***************************************************************************)
(* BibleBook: the book number 1..=66 (the enum is repr(u8), Genesis = 1).  *)
(***************************************************************************)
book_number(book) == book

index(book) == book_number(book) - 1

name(book) == BOOK_NAMES[index(book) + 1]

abbrev(book) == BOOK_ABBREVS[index(book) + 1]

number_of_chapters(book) == BOOK_CHAPTERS[index(book) + 1]

\* Ord for u8.
u8_cmp(a, b) == IF a > b THEN "Greater" ELSE IF a < b THEN "Less" ELSE "Equal"

\* #[derive(PartialOrd, Ord)] on the repr(u8) enum: the order of the
\* discriminants, Genesis = 1 onwards.
BibleBook_cmp(a, b) == u8_cmp(a, b)

\* Variant that counts only the ranges' first arm.
is_old_testament_until_40(book) == book_number(book) \in 1..40

is_new_testament(book) == book_number(book) \in 40..66

is_old_testament(book) == book_number(book) \in 1..39

\* Variant whose accepted range stops one short of the last book.
from_book_number_short(number) ==
  IF number = 0 THEN Err("OutOfRangeError", "Zero used")
  ELSE IF number \in 1..(NumBooks - 1) THEN Ok(number)
  ELSE Err("OutOfRangeError", "book_number should be in range 1..=66")

from_book_number(number) ==
  IF number = 0 THEN Err("OutOfRangeError", "Zero used")
  ELSE IF number \in 1..NumBooks THEN Ok(number)
  ELSE Err("OutOfRangeError", "book_number should be in range 1..=66")

\* Variant that hands the index on as if it were a book number.
from_index_as_number(i) ==
  IF i = NumBooks THEN Err("OutOfRangeError", "66 used")
  ELSE IF i > NumBooks THEN Err("OutOfRangeError", "index should be in range 0..66")
  ELSE from_book_number(i)

from_index(i) ==
  IF i = NumBooks THEN Err("OutOfRangeError", "66 used")
  ELSE IF i > NumBooks THEN Err("OutOfRangeError", "index should be in range 0..66")
  ELSE from_book_number(i + 1)

BibleBook_parse_abbrev_match(r) ==
  IF r = None THEN None ELSE ok(from_index(r.val))

BibleBook_parse_abbrev(s) == BibleBook_parse_abbrev_match(parse_book_abbrev(s))

\* BOOK_NAMES.iter().enumerate().find(|item| *item.1 == name): hits holds the
\* table positions whose name is the text, and find takes the first.
BibleBook_parse_name_match(hits) ==
  IF hits = {} THEN None
  ELSE ok(from_index((CHOOSE i \in hits : \A j \in hits : i <= j) - 1))

BibleBook_parse_name(s) ==
  BibleBook_parse_name_match({i \in 1..NumBooks : BOOK_NAMES[i] = s})

\* match Self::parse_abbrev(value) { Some(value) => Some(value), None => parse_name }
BibleBook_parse_match(a, s) == IF a # None THEN a ELSE BibleBook_parse_name(s)

BibleBook_parse(s) == BibleBook_parse_match(BibleBook_parse_abbrev(s), s)

(***************************************************************************)
(* BibleChapter.                                                           *)
(***************************************************************************)
\* Variant whose range starts at 0.
BibleChapter_is_valid_from_zero(c) == c.chapter \in 0..number_of_chapters(c.book)

BibleChapter_is_valid(c) == c.chapter \in 1..number_of_chapters(c.book)

BibleChapter_new(book, chapter) ==
  LET result == [book |-> book, chapter |-> chapter]
  IN IF BibleChapter_is_valid(result) THEN Some(result) ELSE None

Panic == [tag |-> "Panic"]

\* The text before the first space (split_once(" ")), or all of it.
split_first(s, pos) == IF pos = 0 THEN s ELSE Before(s, pos)

LeadingToken(s) == split_first(s, find(s, " "))

\* Variant without the arm for a chapter above the book's count.
BibleChapter_from_str_book_unbounded(s, book, pos, remain, n) ==
  IF pos = 0
  THEN IF number_of_chapters(book) = 1
       THEN Ok([book |-> book, chapter |-> 1])
       ELSE Err("NoChapterSpecified", s)
  ELSE IF n = None THEN Err("NotANumber", remain)
  ELSE IF n.val = 0
       THEN Err("ChapterOutOfRange", <<"0. Chapter numbers start at 1">>)
  ELSE Ok([book |-> book, chapter |-> n.val])

\* The arms taken once a book is recognised: book is from_index(index), pos
\* is s.find(" "), remain the text after it and n is u8::from_str(remain).
BibleChapter_from_str_book(s, book, pos, remain, n) ==
  IF pos = 0
  THEN IF number_of_chapters(book) = 1
       THEN Ok([book |-> book, chapter |-> 1])
       ELSE Err("NoChapterSpecified", s)
  ELSE IF n = None THEN Err("NotANumber", remain)
  ELSE IF n.val = 0
       THEN Err("ChapterOutOfRange", <<"0. Chapter numbers start at 1">>)
  ELSE IF n.val > number_of_chapters(book)
       THEN Err("ChapterOutOfRange",
                <<name(book), " has ", number_of_chapters(book),
                  " chapters. ", n.val, " is too high.">>)
  ELSE Ok([book |-> book, chapter |-> n.val])

\* The outer match on parse_book_abbrev(s); b is from_index(index).
BibleChapter_from_str_match(s, r, b, pos) ==
  IF r = None THEN Err("NoSuchBookError", LeadingToken(s))
  ELSE IF ~IsOk(b) THEN Panic
  ELSE BibleChapter_from_str_book(s, b.val, pos, After(s, pos), u8_from_str(After(s, pos)))

BibleChapter_from_str_index(s, r) ==
  BibleChapter_from_str_match(s, r, IF r = None THEN None ELSE from_index(r.val), find(s, " "))

BibleChapter_from_str(s) == BibleChapter_from_str_index(s, parse_book_abbrev(s))

BibleChapter_parse(s) == ok(BibleChapter_from_str(s))

BibleChapter_fmt(c) == abbrev(c.book) \o <<" ">> \o to_string(c.chapter)

(***************************************************************************)
(* BibleBookOrChapter: a book alone or a chapter of a book.                *)
(***************************************************************************)
Book(book) == [kind |-> "Book", book |-> book]

Chapter(chapt) == [kind |-> "Chapter", chapt |-> chapt]

\* Variant that writes a book by its full name.
BibleBookOrChapter_fmt_by_name(self) ==
  IF self.kind = "Book" THEN name(self.book) ELSE BibleChapter_fmt(self.chapt)

BibleBookOrChapter_fmt(self) ==
  IF self.kind = "Book" THEN abbrev(self.book) ELSE BibleChapter_fmt(self.chapt)

BibleBookOrChapter_parse_match(pos, book, chapt) ==
  IF pos = 0
  THEN IF book = None THEN None ELSE Some(Book(book.val))
  ELSE IF chapt = None THEN None ELSE Some(Chapter(chapt.val))

BibleBookOrChapter_parse(s) ==
  BibleBookOrChapter_parse_match(find(s, " "), BibleBook_parse(s), BibleChapter_parse(s))

(***************************************************************************)
(* BibleBook::iter(): the numbers 1..=66, each turned into its book.       *)
(***************************************************************************)
\* Variant whose numbers stop one short.
BibleBook_iter_exclusive == [next |-> 1, last |-> 65]

\* The fresh iterator: the range 1..=66 before its first item.
BibleBook_iter == [next |-> 1, last |-> 66]

\* next() of the mapped range: None once the range is used up, a panic if
\* from_book_number refuses the number, the book otherwise.
BibleBook_iter_item(it, r) ==
  IF it.next > it.last THEN None
  ELSE IF IsOk(r) THEN Some(r.val)
  ELSE Panic

BibleBook_iter_next(it) == BibleBook_iter_item(it, from_book_number(it.next))

BibleBook_iter_advance(it) ==
  IF it.next > it.last THEN it ELSE [it EXCEPT !.next = it.next + 1]

(***************************************************************************)
(* ChapterAndVerse: a chapter and verse pair without a book.               *)
(***************************************************************************)
ChapterAndVerse_new(chapter, verse) == [chapter |-> chapter, verse |-> verse]

\* Ord for ChapterAndVerse: chapter first, then verse.
ChapterAndVerse_cmp(a, b) ==
  IF a.chapter > b.chapter THEN "Greater"
  ELSE IF a.chapter < b.chapter THEN "Less"
  ELSE IF a.verse > b.verse THEN "Greater"
  ELSE IF a.verse < b.verse THEN "Less"
  ELSE "Equal"

ChapterAndVerse_le(a, b) == ChapterAndVerse_cmp(a, b) # "Greater"

ChapterAndVerse_fmt(cv) == to_string(cv.chapter) \o <<":">> \o to_string(cv.verse)

ChapterAndVerse_parse_pair(chapter, verse) ==
  IF chapter = None THEN None
  ELSE IF verse = None THEN None
  ELSE Some(ChapterAndVerse_new(chapter.val, verse.val))

ChapterAndVerse_parse_at(s, pos) ==
  IF pos = 0 THEN None
  ELSE ChapterAndVerse_parse_pair(u8_from_str(Before(s, pos)), u8_from_str(After(s, pos)))

ChapterAndVerse_parse(s) == ChapterAndVerse_parse_at(s, find(s, ":"))

\* FromStr for ChapterAndVerse: the same split as parse; a side that is not a
\* number is reported as NotANumber carrying that side.
ChapterAndVerse_from_str_pair(s, pos, chapter, verse) ==
  IF chapter = None THEN Err("NotANumber", Before(s, pos))
  ELSE IF verse = None THEN Err("NotANumber", After(s, pos))
  ELSE Ok(ChapterAndVerse_new(chapter.val, verse.val))

ChapterAndVerse_from_str_at(s, pos) ==
  IF pos = 0 THEN Err("InvalidFormat", s)
  ELSE ChapterAndVerse_from_str_pair(s, pos, u8_from_str(Before(s, pos)),
                                     u8_from_str(After(s, pos)))

ChapterAndVerse_from_str(s) == ChapterAndVerse_from_str_at(s, find(s, ":"))

(***************************************************************************)
(* ChapterAndVerseOrVerse.                                                 *)
(***************************************************************************)
Both(cv) == [kind |-> "Both", cv |-> cv]

JustVerse(v) == [kind |-> "JustVerse", verse |-> v]

\* .map(ChapterAndVerseOrVerse::JustVerse).map_err(|_| NotANumber::new(s))
JustVerse_or_error(s, n) ==
  IF n = None THEN Err("NotANumber", s) ELSE Ok(JustVerse(n.val))

\* .map(ChapterAndVerseOrVerse::Both)
Both_or_error(r) == IF IsOk(r) THEN Ok(Both(r.val)) ELSE r

\* Variant that never splits on ':' and reads every token as a bare verse.
ChapterAndVerseOrVerse_from_str_verse_only(s) == JustVerse_or_error(s, u8_from_str(s))

ChapterAndVerseOrVerse_from_str(s) ==
  IF find(s, ":") = 0
  THEN JustVerse_or_error(s, u8_from_str(s))
  ELSE Both_or_error(ChapterAndVerse_from_str(s))

(***************************************************************************)
(* ChapterAndVerseRange: an inclusive range start..=end of ChapterAndVerse. *)
(***************************************************************************)
RangeInclusive(start, end) == [start |-> start, end |-> end]

\* RangeInclusive::is_empty: !(start <= end).
is_empty(range) == ~ChapterAndVerse_le(range.start, range.end)

\* RangeInclusive::contains: start <= item && item <= end.
range_contains(range, item) ==
  ChapterAndVerse_le(range.start, item) /\ ChapterAndVerse_le(item, range.end)

\* Variant that builds the end point with its arguments in the wrong order.
SinglePoint_swapped(cv) ==
  RangeInclusive(cv, ChapterAndVerse_new(cv.verse, cv.chapter))

\* The range of one point, cv..=cv.
SinglePoint(cv) == RangeInclusive(cv, cv)

\* No '-': a single verse; cvv is ChapterAndVerseOrVerse::from_str(s).
ChapterAndVerseRange_single(cvv) ==
  IF IsErr(cvv) THEN cvv
  ELSE IF cvv.val.kind = "Both" THEN Ok(SinglePoint(cvv.val.cv))
  ELSE ErrData("ImplicitRange", SinglePoint(ChapterAndVerse_new(1, cvv.val.verse)))

\* let cv_start = match cvv_start { ... }
cv_start_of(cvv_start) ==
  IF cvv_start.kind = "Both"
  THEN cvv_start.cv
  ELSE ChapterAndVerse_new(1, cvv_start.verse)

\* Variant that gives a bare end verse chapter 1 instead of the start's chapter.
cv_end_of_first_chapter(cvv_end, cv_start) ==
  IF cvv_end.kind = "Both"
  THEN cvv_end.cv
  ELSE ChapterAndVerse_new(1, cvv_end.verse)

\* let cv_end = match cvv_end { ... } for an end side without an early return.
cv_end_of(cvv_end, cv_start) ==
  IF cvv_end.kind = "Both"
  THEN cvv_end.cv
  ELSE ChapterAndVerse_new(cv_start.chapter, cvv_end.verse)

\* Variant that accepts a chapter stated at the end only.
ChapterAndVerseRange_build_lenient(implicit, cvv_end, cv_start) ==
  IF implicit
  THEN ErrData("ImplicitRange", RangeInclusive(cv_start, cv_end_of(cvv_end, cv_start)))
  ELSE Ok(RangeInclusive(cv_start, cv_end_of(cvv_end, cv_start)))

ChapterAndVerseRange_build(implicit, cvv_end, cv_start) ==
  IF cvv_end.kind = "Both" /\ implicit
  THEN Err("InvalidFormat", "Chapter specified at end only")
  ELSE IF implicit
  THEN ErrData("ImplicitRange", RangeInclusive(cv_start, cv_end_of(cvv_end, cv_start)))
  ELSE Ok(RangeInclusive(cv_start, cv_end_of(cvv_end, cv_start)))

\* One '-': both sides parsed, the start side's error first.
ChapterAndVerseRange_pair(cvv_start, cvv_end) ==
  IF IsErr(cvv_start) THEN cvv_start
  ELSE IF IsErr(cvv_end) THEN cvv_end
  ELSE ChapterAndVerseRange_build(cvv_start.val.kind = "JustVerse", cvv_end.val,
                                  cv_start_of(cvv_start.val))

ChapterAndVerseRange_at(s, pos) ==
  IF pos = 0
  THEN ChapterAndVerseRange_single(ChapterAndVerseOrVerse_from_str(s))
  ELSE ChapterAndVerseRange_pair(ChapterAndVerseOrVerse_from_str(Before(s, pos)),
                                 ChapterAndVerseOrVerse_from_str(After(s, pos)))

ChapterAndVerseRange_from_str(s) == ChapterAndVerseRange_at(s, find(s, "-"))

Full(cvr) == [kind |-> "Full", range |-> cvr]

Implicit(cvr) == [kind |-> "Implicit", range |-> cvr]

\* Variant that treats an implicit range like any other error (.ok()).
ChapterAndVerseRange_parse_match_ok_only(r) ==
  IF IsOk(r) THEN Some(Full(r.val)) ELSE None

ChapterAndVerseRange_parse_match(r) ==
  IF IsOk(r) THEN Some(Full(r.val))
  ELSE IF r.kind = "ImplicitRange" THEN Some(Implicit(r.data))
  ELSE None

ChapterAndVerseRange_parse(s) ==
  ChapterAndVerseRange_parse_match(ChapterAndVerseRange_from_str(s))

\* "No matching abbreviation".to_string(): the message of the NoSuchBookError
\* of BibleVerse and BibleVerseRange parsing, as text.
NoMatchingAbbreviation ==
  <<"N", "o", " ", "m", "a", "t", "c", "h", "i", "n", "g", " ",
    "a", "b", "b", "r", "e", "v", "i", "a", "t", "i", "o", "n">>

(***************************************************************************)
(* BibleVerse.                                                             *)
(***************************************************************************)
BibleVerse_new(book, chapter, verse) ==
  [book |-> book, chapter |-> chapter, verse |-> verse]

\* Variant that looks at the verse before the chapter.
BibleVerse_cmp_verse_first(self, other) ==
  IF BibleBook_cmp(self.book, other.book) # "Equal"
  THEN BibleBook_cmp(self.book, other.book)
  ELSE IF u8_cmp(self.verse, other.verse) # "Equal"
  THEN u8_cmp(self.verse, other.verse)
  ELSE u8_cmp(self.chapter, other.chapter)

\* Ord for BibleVerse: book, then chapter, then verse.
BibleVerse_cmp(self, other) ==
  IF BibleBook_cmp(self.book, other.book) = "Greater" THEN "Greater"
  ELSE IF BibleBook_cmp(self.book, other.book) = "Less" THEN "Less"
  ELSE IF u8_cmp(self.chapter, other.chapter) = "Greater" THEN "Greater"
  ELSE IF u8_cmp(self.chapter, other.chapter) = "Less" THEN "Less"
  ELSE u8_cmp(self.verse, other.verse)

\* Variant that writes the verse before the chapter.
BibleVerse_fmt_swapped(v) ==
  abbrev(v.book) \o <<" ">> \o to_string(v.verse) \o <<":">> \o to_string(v.chapter)

BibleVerse_fmt(v) ==
  abbrev(v.book) \o <<" ">> \o to_string(v.chapter) \o <<":">> \o to_string(v.verse)

\* Variant that takes chapter 1 for a bare verse of any book.
BibleVerse_from_str_match_any_book(b, pos, cvv) ==
  IF b = None THEN Err("NoSuchBookError", NoMatchingAbbreviation)
  ELSE IF pos = 0 THEN Err("NoChapterSpecified", "No chapter/verse specified.")
  ELSE IF IsErr(cvv) THEN cvv
  ELSE IF cvv.val.kind = "JustVerse" THEN Ok(BibleVerse_new(b.val, 1, cvv.val.verse))
  ELSE Ok(BibleVerse_new(b.val, cvv.val.cv.chapter, cvv.val.cv.verse))

\* b is BibleBook::parse_abbrev(s), pos is s.find(" ") and cvv is
\* ChapterAndVerseOrVerse::from_str(remain).
BibleVerse_from_str_match(b, pos, cvv) ==
  IF b = None THEN Err("NoSuchBookError", NoMatchingAbbreviation)
  ELSE IF pos = 0 THEN Err("NoChapterSpecified", "No chapter/verse specified.")
  ELSE IF IsErr(cvv) THEN cvv
  ELSE IF cvv.val.kind = "JustVerse"
       THEN IF number_of_chapters(b.val) = 1
            THEN Ok(BibleVerse_new(b.val, 1, cvv.val.verse))
            ELSE Err("NoChapterSpecified",
                     "Chapter can only be ommited for single-chapter books")
  ELSE Ok(BibleVerse_new(b.val, cvv.val.cv.chapter, cvv.val.cv.verse))

BibleVerse_from_str(s) ==
  BibleVerse_from_str_match(BibleBook_parse_abbrev(s), find(s, " "),
                            ChapterAndVerseOrVerse_from_str(After(s, find(s, " "))))

BibleVerse_parse(s) == ok(BibleVerse_from_str(s))

(***************************************************************************)
(* BibleVerseRange.                                                        *)
(***************************************************************************)
BibleVerseRange_new(book, start_chapter, start_verse, end_chapter, end_verse) ==
  [book |-> book,
   range |-> RangeInclusive(ChapterAndVerse_new(start_chapter, start_verse),
                            ChapterAndVerse_new(end_chapter, end_verse))]

\* Variant that leaves the book out of the test.
BibleVerseRange_contains_any_book(r, verse) ==
  range_contains(r.range, ChapterAndVerse_new(verse.chapter, verse.verse))

BibleVerseRange_contains(r, verse) ==
  /\ r.book = verse.book
  /\ range_contains(r.range, ChapterAndVerse_new(verse.chapter, verse.verse))

\* Variant that always writes the end with its chapter.
BibleVerseRange_fmt_full_end(r) ==
  LET start == IF number_of_chapters(r.book) = 1
               THEN to_string(r.range.start.verse)
               ELSE ChapterAndVerse_fmt(r.range.start)
  IN IF r.range.start = r.range.end
     THEN abbrev(r.book) \o <<" ">> \o start
     ELSE abbrev(r.book) \o <<" ">> \o start \o <<"-">> \o ChapterAndVerse_fmt(r.range.end)

BibleVerseRange_fmt(r) ==
  LET start == IF number_of_chapters(r.book) = 1
               THEN to_string(r.range.start.verse)
               ELSE ChapterAndVerse_fmt(r.range.start)
      end == IF number_of_chapters(r.book) = 1
                \/ r.range.start.chapter = r.range.end.chapter
             THEN to_string(r.range.end.verse)
             ELSE ChapterAndVerse_fmt(r.range.end)
  IN IF r.range.start = r.range.end
     THEN abbrev(r.book) \o <<" ">> \o start
     ELSE abbrev(r.book) \o <<" ">> \o start \o <<"-">> \o end

\* Variant that accepts the range without the emptiness check.
CheckedRange_unchecked(book, cvr) == Ok([book |-> book, range |-> cvr])

\* The emptiness check made on a parsed range before it is accepted.
CheckedRange(book, cvr) ==
  IF is_empty(cvr)
  THEN Err("InvalidRange", "End verse before start")
  ELSE Ok([book |-> book, range |-> cvr])

\* Variant that accepts an implicit range for a book of any chapter count.
BibleVerseRange_from_str_match_any_book(b, pos, r) ==
  IF b = None THEN Err("NoSuchBookError", NoMatchingAbbreviation)
  ELSE IF pos = 0 THEN Err("NoChapterSpecified", "No chapter/verse specified.")
  ELSE IF IsOk(r) THEN CheckedRange(b.val, r.val)
  ELSE IF r.kind = "ImplicitRange" THEN CheckedRange(b.val, r.data)
  ELSE r

\* Variant whose range runs on to the next verse.
BibleVerseRange_from_next_verse(value) ==
  [book |-> value.book,
   range |-> RangeInclusive(ChapterAndVerse_new(value.chapter, value.verse),
                            ChapterAndVerse_new(value.chapter, value.verse + 1))]

\* impl From<BibleVerse> for BibleVerseRange.
BibleVerseRange_from(value) ==
  [book |-> value.book,
   range |-> RangeInclusive(ChapterAndVerse_new(value.chapter, value.verse),
                            ChapterAndVerse_new(value.chapter, value.verse))]

\* b is BibleBook::parse_abbrev(s), pos is s.find(" ") and r is
\* ChapterAndVerseRange::from_str(remain).
BibleVerseRange_from_str_match(b, pos, r) ==
  IF b = None THEN Err("NoSuchBookError", NoMatchingAbbreviation)
  ELSE IF pos = 0 THEN Err("NoChapterSpecified", "No chapter/verse specified.")
  ELSE IF IsOk(r) THEN CheckedRange(b.val, r.val)
  ELSE IF r.kind = "ImplicitRange"
       THEN IF number_of_chapters(b.val) = 1
            THEN CheckedRange(b.val, r.data)
            ELSE Err("NoChapterSpecified",
                     "Chapter can only be ommited for single-chapter books")
  ELSE r

BibleVerseRange_from_str(s) ==
  BibleVerseRange_from_str_match(BibleBook_parse_abbrev(s), find(s, " "),
                                 ChapterAndVerseRange_from_str(After(s, find(s, " "))))

BibleVerseRange_parse(s) == ok(BibleVerseRange_from_str(s))

(***************************************************************************)
(* Input texts.  A text is a leading token, optionally followed by one     *)
(* space and a remainder.                                                  *)
(***************************************************************************)
MaxChapter == 2

MaxVerse == 2

\* The largest small number handed to from_book_number and from_index.
MaxBookNumber == 70

\* The u32 arguments tried: the small numbers and one very large value (the
\* largest integer the model checker represents).
BookNumbers == (0..MaxBookNumber) \cup {2147483647}

Abbrevs == {BOOK_ABBREVS[i] : i \in 1..NumBooks}

\* Tokens that take the optional-letter branch of some_at_end.
OptionalLetterTokens ==
  {<<"G", "e", "n">>, <<"L", "a", "m">>, <<"N", "u", "m">>, <<"D", "a", "n">>,
   <<"S", "o">>, <<"S", "o", "S">>}

\* Every proper prefix of an abbreviation, the empty token included.
Prefixes == UNION {{SubSeq(a, 1, k) : k \in 0..(Len(a) - 1)} : a \in Abbrevs} \ Abbrevs

OtherTokens ==
  {<<"J", "u", "d", "g", "e", "s">>, <<"H", "e", "l", "l", "o">>, <<"g", "e">>,
   <<"G", "e", "n", "e">>, <<"S", "o", "S", "S">>, <<"X", "x">>, <<"1">>, <<"4", "J", "n">>}

Tokens ==
  Abbrevs \cup OptionalLetterTokens \cup Prefixes \cup OtherTokens
    \cup {a \o <<"q">> : a \in Abbrevs \cup OptionalLetterTokens}

\* Tokens combined with every remainder: a 50-chapter book, single-chapter
\* books, an optional-letter token, an unknown token.
KeyTokens ==
  {<<"G", "e">>, <<"O", "b">>, <<"J", "u", "d", "e">>, <<"L", "a", "m">>, <<"X", "x">>}

BareNumerals ==
  {to_string(n) : n \in (0..MaxChapter) \cup {50, 51, 150, 255, 256, 300}}
    \cup {<<>>, <<"+", "1">>, <<"0", "2">>, <<"-", "1">>, <<"x">>, <<"1", " ">>, <<"+">>}

ColonChapters == {to_string(n) : n \in (0..MaxChapter) \cup {51, 256}} \cup {<<>>}

ColonVerses == {to_string(n) : n \in (0..MaxVerse) \cup {255}} \cup {<<"x">>, <<>>}

Points ==
  {c \o <<":">> \o v : c \in ColonChapters, v \in ColonVerses}
    \cup {to_string(n) : n \in 0..MaxVerse} \cup {<<>>}

Remainders ==
  BareNumerals \cup Points \cup {x \o <<"-">> \o y : x \in Points, y \in Points}
    \cup {<<"+", "1", ":", "0", "2">>, <<"1", ":", "1", ":", "1">>, <<"1", "-", "2", "-", "3">>}

SmallRemainders ==
  {<<>>, <<"1">>, <<"0">>, <<"5", "1">>, <<"1", ":", "1">>, <<"2", "-", "1">>,
   <<"1", ":", "1", "-", "2">>, <<"1", " ", "q">>, <<"1", "-", "2">>,
   <<"1", "-", "2", ":", "2">>}

\* The full names of the books.
Names == {BOOK_NAMES[i] : i \in 1..NumBooks}

\* The arguments of BibleVerseRange::new and BibleVerse::new that are tried:
\* two multi-chapter books and two single-chapter books, the small chapters
\* and verses and a two-digit verse.
KeyBooks == {1, 2, 31, 65}

NewChapters == 0..MaxChapter

NewVerses == (0..MaxVerse) \cup {10}

\* "abbrev c" for every book and every chapter the book has.
ChapterTexts ==
  UNION {{BOOK_ABBREVS[b] \o <<" ">> \o to_string(c) : c \in 1..BOOK_CHAPTERS[b]} :
           b \in 1..NumBooks}

\* The number of times iter() is called in one behaviour.
MaxIterCalls == 2

Inputs ==
  Tokens
    \cup Names
    \cup {t \o <<" ">> \o r : t \in Tokens, r \in SmallRemainders}
    \cup {t \o <<" ">> \o r : t \in KeyTokens, r \in Remainders}
    \cup Remainders
    \cup ChapterTexts

(***************************************************************************)
(* The state machine: a caller holds a text, applies one parser to it, and *)
(* may render a parsed verse or range and parse the rendering again.       *)
(***************************************************************************)
VARIABLES text, pc, result, saved

vars == <<text, pc, result, saved>>

Init ==
  /\ text \in Inputs
  /\ pc = "input"
  /\ result = None
  /\ saved = None

ParseBookAbbrev ==
  /\ pc = "input"
  /\ pc' = "parse_book_abbrev"
  /\ result' = parse_book_abbrev(text)
  /\ UNCHANGED <<text, saved>>

ChapterFromStr ==
  /\ pc = "input"
  /\ pc' = "BibleChapter"
  /\ result' = BibleChapter_from_str(text)
  /\ UNCHANGED <<text, saved>>

VerseFromStr ==
  /\ pc = "input"
  /\ pc' = "BibleVerse"
  /\ result' = BibleVerse_from_str(text)
  /\ UNCHANGED <<text, saved>>

\* BibleVerseRange::parse of the text BibleVerse::parse was given, and the
\* conversion of the verse into a range; the verse outcome is kept in saved.
VerseThenVerseRange ==
  /\ pc = "BibleVerse"
  /\ pc' = "BibleVerse_and_range"
  /\ saved' = Some([verse |-> result,
                    converted |-> IF IsOk(result)
                                  THEN Some(BibleVerseRange_from(result.val))
                                  ELSE None])
  /\ result' = BibleVerseRange_from_str(text)
  /\ UNCHANGED text

ChapterAndVerseRangeFromStr ==
  /\ pc = "input"
  /\ pc' = "ChapterAndVerseRange"
  /\ result' = ChapterAndVerseRange_from_str(text)
  /\ UNCHANGED <<text, saved>>

VerseRangeFromStr ==
  /\ pc = "input"
  /\ pc' = "BibleVerseRange"
  /\ result' = BibleVerseRange_from_str(text)
  /\ UNCHANGED <<text, saved>>

\* ChapterAndVerseRange::parse on the text from_str was applied to; the
\* from_str result is kept for comparison.
ChapterAndVerseRangeParse ==
  /\ pc = "ChapterAndVerseRange"
  /\ pc' = "ChapterAndVerseRange_parse"
  /\ result' = ChapterAndVerseRange_parse(text)
  /\ saved' = Some(result)
  /\ UNCHANGED text

ChapterAndVerseOrVerseFromStr ==
  /\ pc = "input"
  /\ pc' = "ChapterAndVerseOrVerse"
  /\ result' = ChapterAndVerseOrVerse_from_str(text)
  /\ UNCHANGED <<text, saved>>

BookParse ==
  /\ pc = "input"
  /\ pc' = "BibleBook"
  /\ result' = BibleBook_parse(text)
  /\ UNCHANGED <<text, saved>>

\* BibleVerseRange::new(book, start_chapter, start_verse, end_chapter,
\* end_verse).  The call takes no text.
VerseRangeNew ==
  /\ pc = "input"
  /\ text = <<>>
  /\ \E book \in KeyBooks, sc \in NewChapters, sv \in NewVerses,
        ec \in NewChapters, ev \in NewVerses :
       result' = BibleVerseRange_new(book, sc, sv, ec, ev)
  /\ pc' = "BibleVerseRange_new"
  /\ UNCHANGED <<text, saved>>

\* range.contains(&verse) for a constructed range and a constructed verse;
\* both are kept in saved and the answer is the result.
Contains ==
  /\ pc = "BibleVerseRange_new"
  /\ \E book \in KeyBooks, chapter \in NewChapters, verse \in NewVerses :
       LET v == BibleVerse_new(book, chapter, verse)
       IN /\ saved' = Some([range |-> result, verse |-> v])
          /\ result' = BibleVerseRange_contains(result, v)
  /\ pc' = "contains"
  /\ UNCHANGED text

\* format!("{}", range) of a constructed range; the range stays in result.
DisplayNewVerseRange ==
  /\ pc = "BibleVerseRange_new"
  /\ pc' = "BibleVerseRange_new_shown"
  /\ text' = BibleVerseRange_fmt(result)
  /\ UNCHANGED <<result, saved>>

\* BibleBook::from_book_number(number); the argument is kept for comparison.
\* The call takes no text.
BookFromNumber ==
  /\ pc = "input"
  /\ text = <<>>
  /\ \E number \in BookNumbers :
       /\ result' = from_book_number(number)
       /\ saved' = Some(number)
  /\ pc' = "from_book_number"
  /\ UNCHANGED text

\* BibleBook::from_index(index); the argument is kept for comparison.  The
\* call takes no text.
BookFromIndex ==
  /\ pc = "input"
  /\ text = <<>>
  /\ \E i \in BookNumbers :
       /\ result' = from_index(i)
       /\ saved' = Some(i)
  /\ pc' = "from_index"
  /\ UNCHANGED text

\* BibleBookOrChapter::parse(text).
BookOrChapterParse ==
  /\ pc = "input"
  /\ pc' = "BibleBookOrChapter"
  /\ result' = BibleBookOrChapter_parse(text)
  /\ UNCHANGED <<text, saved>>

\* format!("{}", value) of a parsed book or chapter; the value and the text
\* it was parsed from are kept for comparison.
DisplayBookOrChapter ==
  /\ pc = "BibleBookOrChapter"
  /\ result # None
  /\ pc' = "BibleBookOrChapter_shown"
  /\ text' = BibleBookOrChapter_fmt(result.val)
  /\ saved' = Some([val |-> result.val, source |-> text])
  /\ UNCHANGED result

\* format!("{}", chapter) of a chapter BibleChapter::new returned.
DisplayChapter ==
  /\ pc = "BibleChapter_new"
  /\ result # None
  /\ pc' = "BibleChapter_shown"
  /\ text' = BibleChapter_fmt(result.val)
  /\ UNCHANGED <<result, saved>>

\* BibleBookOrChapter::parse of a rendered chapter; the chapter is kept.
ReparseChapter ==
  /\ pc = "BibleChapter_shown"
  /\ pc' = "BibleChapter_reparsed"
  /\ saved' = result
  /\ result' = BibleBookOrChapter_parse(text)
  /\ UNCHANGED text

\* BibleBook::iter(): a first call, or a later call made while an earlier
\* iterator is part-way or used up.  saved holds the iterator, the items it
\* has yielded and the number of calls made.
Iter ==
  /\ text = <<>>
  /\ \/ pc = "input" /\ saved' = Some([it |-> BibleBook_iter, yielded |-> <<>>, calls |-> 1])
     \/ /\ pc \in {"iter", "iter_done"}
        /\ saved.val.calls < MaxIterCalls
        /\ saved' = Some([it |-> BibleBook_iter, yielded |-> <<>>,
                          calls |-> saved.val.calls + 1])
  /\ pc' = "iter"
  /\ result' = None
  /\ UNCHANGED text

\* it.next() of the iterator in saved.
IterNext ==
  /\ pc = "iter"
  /\ LET item == BibleBook_iter_next(saved.val.it)
     IN /\ result' = item
        /\ pc' = IF item = None THEN "iter_done"
                 ELSE IF item = Panic THEN "iter_panicked" ELSE "iter"
        /\ saved' = Some([saved.val EXCEPT
                            !.it = BibleBook_iter_advance(saved.val.it),
                            !.yielded = IF item = None \/ item = Panic THEN @
                                        ELSE Append(@, item.val)])
  /\ UNCHANGED text

\* self.cmp(&other) for two constructed verses, kept in saved.
CompareVerses ==
  /\ pc = "input"
  /\ text = <<>>
  /\ \E b1 \in KeyBooks, c1 \in NewChapters, v1 \in NewVerses,
        b2 \in KeyBooks, c2 \in NewChapters, v2 \in NewVerses :
       LET self == BibleVerse_new(b1, c1, v1)
           other == BibleVerse_new(b2, c2, v2)
       IN /\ saved' = Some([self |-> self, other |-> other])
          /\ result' = BibleVerse_cmp(self, other)
  /\ pc' = "BibleVerse_cmp"
  /\ UNCHANGED text

\* self.cmp(&other) for any two books, kept in saved.
CompareBooks ==
  /\ pc = "input"
  /\ text = <<>>
  /\ \E self \in 1..NumBooks, other \in 1..NumBooks :
       /\ saved' = Some([self |-> self, other |-> other])
       /\ result' = BibleBook_cmp(self, other)
  /\ pc' = "BibleBook_cmp"
  /\ UNCHANGED text

\* is_old_testament() and is_new_testament() of any book, kept in saved.
Testament ==
  /\ pc = "input"
  /\ text = <<>>
  /\ \E book \in 1..NumBooks :
       /\ saved' = Some(book)
       /\ result' = [old |-> is_old_testament(book), new |-> is_new_testament(book)]
  /\ pc' = "testament"
  /\ UNCHANGED text

\* BibleChapter::new(book, chapter) for any book and any u8 chapter; the
\* arguments are kept for comparison.  The call takes no text.
ChapterNew ==
  /\ pc = "input"
  /\ text = <<>>
  /\ \E book \in 1..NumBooks, chapter \in 0..U8Max :
       /\ result' = BibleChapter_new(book, chapter)
       /\ saved' = Some([book |-> book, chapter |-> chapter])
  /\ pc' = "BibleChapter_new"
  /\ UNCHANGED text

\* format!("{}", verse) of a parsed verse; the value and the text it was
\* parsed from are kept for comparison.
DisplayVerse ==
  /\ pc = "BibleVerse"
  /\ IsOk(result)
  /\ pc' = "BibleVerse_shown"
  /\ text' = BibleVerse_fmt(result.val)
  /\ saved' = Some([val |-> result.val, source |-> text])
  /\ UNCHANGED result

ReparseVerse ==
  /\ pc = "BibleVerse_shown"
  /\ pc' = "BibleVerse_reparsed"
  /\ result' = BibleVerse_from_str(text)
  /\ UNCHANGED <<text, saved>>

DisplayVerseRange ==
  /\ pc = "BibleVerseRange"
  /\ IsOk(result)
  /\ pc' = "BibleVerseRange_shown"
  /\ text' = BibleVerseRange_fmt(result.val)
  /\ saved' = Some([val |-> result.val, source |-> text])
  /\ UNCHANGED result

ReparseVerseRange ==
  /\ pc = "BibleVerseRange_shown"
  /\ pc' = "BibleVerseRange_reparsed"
  /\ result' = BibleVerseRange_from_str(text)
  /\ UNCHANGED <<text, saved>>

Next ==
  \/ ParseBookAbbrev
  \/ ChapterFromStr
  \/ VerseFromStr
  \/ ChapterAndVerseRangeFromStr
  \/ VerseRangeFromStr
  \/ ChapterNew
  \/ ChapterAndVerseRangeParse
  \/ ChapterAndVerseOrVerseFromStr
  \/ BookParse
  \/ VerseRangeNew
  \/ DisplayNewVerseRange
  \/ BookOrChapterParse
  \/ DisplayBookOrChapter
  \/ DisplayChapter
  \/ ReparseChapter
  \/ Iter
  \/ IterNext
  \/ CompareVerses
  \/ CompareBooks
  \/ Testament
  \/ VerseThenVerseRange
  \/ Contains
  \/ BookFromNumber
  \/ BookFromIndex
  \/ DisplayVerse
  \/ ReparseVerse
  \/ DisplayVerseRange
  \/ ReparseVerseRange

Spec == Init /\ [][Next]_vars

(***************************************************************************)
(* Properties.                                                             *)
(***************************************************************************)
Space == <<" ">>

\* Chapter-major, verse-minor order, stated directly.
CVLessEq(a, b) == a.chapter < b.chapter \/ (a.chapter = b.chapter /\ a.verse <= b.verse)

\* C1: for each of the 66 canonical abbreviations A with 0-based index i,
\* parse_book_abbrev(A) and parse_book_abbrev(A + " ") return Some(i) and
\* parse_book_abbrev(A + "q") returns None.
C1_CanonicalAbbrevs ==
  pc = "parse_book_abbrev" =>
    \A i \in 0..(NumBooks - 1) :
      /\ text \in {BOOK_ABBREVS[i + 1], BOOK_ABBREVS[i + 1] \o Space} => result = Some(i)
      /\ text = BOOK_ABBREVS[i + 1] \o <<"q">> => result = None

C1_Witness ==
  /\ pc = "parse_book_abbrev"
  /\ text = <<"J", "n", " ">>
  /\ result = Some(42)

\* C2: whenever parse_book_abbrev returns Some(i), the leading token of the
\* text is exactly BOOK_ABBREVS[i], or is "SoS" with i = 21.
C2_OnlyKnownAbbrevs ==
  (pc = "parse_book_abbrev" /\ IsSome(result)) =>
    \/ LeadingToken(text) = BOOK_ABBREVS[result.val + 1]
    \/ (LeadingToken(text) = <<"S", "o", "S">> /\ result.val = 21)

\* C3: a text whose leading token is "SS" or "SoS" is recognised as Song of
\* Songs, index 21.
C3_SongOfSongs ==
  (pc = "parse_book_abbrev"
     /\ LeadingToken(text) \in {<<"S", "S">>, <<"S", "o", "S">>}) =>
    result = Some(21)

\* C4: a parsed BibleVerseRange, rendered and parsed again, gives an equal
\* value.
C4_RangeRoundTrip ==
  pc = "BibleVerseRange_reparsed" => result = Ok(saved.val.val)

\* C5: a parsed BibleVerse, rendered and parsed again, gives an equal value,
\* also for a verse of a single-chapter book written without a chapter.
C5_VerseRoundTrip ==
  pc = "BibleVerse_reparsed" => result = Ok(saved.val.val)

C5_Witness ==
  /\ pc = "BibleVerse_reparsed"
  /\ saved.val.source = <<"O", "b", " ", "2">>
  /\ text = <<"O", "b", " ", "1", ":", "2">>
  /\ result = Ok(BibleVerse_new(31, 1, 2))

\* The range a ChapterAndVerseRange parse produced, Full (Ok) or Implicit.
Produced(r) == IsOk(r) \/ (IsErr(r) /\ r.kind = "ImplicitRange")

ProducedRange(r) == IF IsOk(r) THEN r.val ELSE r.data

C7_VerseRangeOrdered ==
  pc = "BibleVerseRange" =>
    /\ IsOk(result) => CVLessEq(result.val.range.start, result.val.range.end)
    /\ (BibleBook_parse_abbrev(text) # None /\ find(text, " ") # 0) =>
         LET inner == ChapterAndVerseRange_from_str(After(text, find(text, " ")))
             single == number_of_chapters(BibleBook_parse_abbrev(text).val) = 1
         IN (Produced(inner)
               /\ ~CVLessEq(ProducedRange(inner).start, ProducedRange(inner).end)
               /\ (IsOk(inner) \/ single)) =>
              (IsErr(result) /\ result.kind = "InvalidRange")

C7_Witness ==
  /\ pc = "BibleVerseRange"
  /\ text = <<"O", "b", " ", "2", "-", "1">>
  /\ IsErr(result)
  /\ result.kind = "InvalidRange"

\* C8: both endpoints of a parsed BibleVerseRange have a chapter that is valid
\* for the book: 1 <= start.chapter and end.chapter <= number_of_chapters.
C8_ChaptersValid ==
  (pc = "BibleVerseRange" /\ IsOk(result)) =>
    /\ 1 <= result.val.range.start.chapter
    /\ result.val.range.end.chapter <= number_of_chapters(result.val.book)

\* A decimal numeral of any length and its value.
IsDecimal(s) == Len(s) > 0 /\ \A i \in 1..Len(s) : IsDigit(s[i])

RECURSIVE DecimalValue(_)
DecimalValue(s) ==
  IF Len(s) = 0 THEN 0
  ELSE DecimalValue(SubSeq(s, 1, Len(s) - 1)) * 10 + DigitVal(s[Len(s)])

\* The book a known abbreviation names: its table position, or Song of Songs
\* for the alternate spelling "SoS".
IsKnownAbbrev(tok) == tok \in Abbrevs \cup {<<"S", "o", "S">>}

KnownBook(tok) ==
  IF tok = <<"S", "o", "S">> THEN 22
  ELSE CHOOSE b \in 1..NumBooks : BOOK_ABBREVS[b] = tok

\* C9: BibleChapter::from_str("A n") for a canonical abbreviation A and a
\* decimal n of any magnitude that is 0 or above the book's chapter count
\* fails with ChapterOutOfRange, and for n above the count the message names
\* the book's chapter count.
C9_ChapterOutOfRange ==
  (pc = "BibleChapter" /\ find(text, " ") # 0 /\ LeadingToken(text) \in Abbrevs
     /\ IsDecimal(After(text, find(text, " ")))) =>
    LET book == KnownBook(LeadingToken(text))
        n == DecimalValue(After(text, find(text, " ")))
    IN (n = 0 \/ n > BOOK_CHAPTERS[book]) =>
         /\ IsErr(result)
         /\ result.kind = "ChapterOutOfRange"
         /\ n > BOOK_CHAPTERS[book] =>
              (Len(result.message) = 6 /\ result.message[3] = BOOK_CHAPTERS[book])

\* An integer literal: a decimal numeral, optionally signed with '+'.
IsInteger(s) == IsDecimal(s) \/ (Len(s) > 1 /\ s[1] = "+" /\ IsDecimal(Tail(s)))

IntegerValue(s) == IF s[1] = "+" THEN DecimalValue(Tail(s)) ELSE DecimalValue(s)

\* C10: BibleChapter::parse succeeds exactly when the text is a known
\* abbreviation of a single-chapter book (giving chapter 1), or a known
\* abbreviation, one space and an integer n within the book's chapter count
\* (giving BibleChapter::new(book, n)); every other text fails.
C10_ChapterParseCases ==
  pc = "BibleChapter" =>
    LET tok == LeadingToken(text)
        pos == find(text, " ")
        rem == After(text, pos)
        bare == pos = 0 /\ IsKnownAbbrev(tok) /\ BOOK_CHAPTERS[KnownBook(tok)] = 1
        numbered == /\ pos # 0
                    /\ IsKnownAbbrev(tok)
                    /\ IsInteger(rem)
                    /\ IntegerValue(rem) \in 1..BOOK_CHAPTERS[KnownBook(tok)]
    IN /\ IsOk(result) <=> (bare \/ numbered)
       /\ bare => ok(result) = Some([book |-> KnownBook(tok), chapter |-> 1])
       /\ numbered => ok(result) = BibleChapter_new(KnownBook(tok), IntegerValue(rem))

\* C11: every BibleChapter that BibleChapter::new or BibleChapter parsing
\* returns has 1 <= chapter <= number_of_chapters of its book.
C11_ChapterAlwaysValid ==
  /\ (pc = "BibleChapter_new" /\ IsSome(result)) =>
       (1 <= result.val.chapter /\ result.val.chapter <= BOOK_CHAPTERS[result.val.book])
  /\ (pc = "BibleChapter" /\ IsOk(result)) =>
       (1 <= result.val.chapter /\ result.val.chapter <= BOOK_CHAPTERS[result.val.book])

C11_Witness ==
  /\ pc = "BibleChapter"
  /\ text = <<"G", "e", " ", "5", "0">>
  /\ result = Ok([book |-> 1, chapter |-> 50])

\* C12: BibleChapter::new(book, n) is Some, holding book and n, exactly when
\* 1 <= n <= the book's chapter count, for all 66 books and n in 0..=255.
C12_NewValidates ==
  pc = "BibleChapter_new" =>
    LET n == saved.val.chapter
        count == BOOK_CHAPTERS[saved.val.book]
    IN IF 1 <= n /\ n <= count
       THEN result = Some([book |-> saved.val.book, chapter |-> n])
       ELSE result = None

C12_Witness ==
  /\ pc = "BibleChapter_new"
  /\ saved = Some([book |-> 19, chapter |-> 150])
  /\ result = Some([book |-> 19, chapter |-> 150])

\* The decimal numeral of a number, and the numbers written in range tokens.
Numeral(n) == to_string(n)

ShapeValues == (0..MaxChapter) \cup (0..MaxVerse) \cup {51, U8Max}

CVRange(c, a, d, b) ==
  [start |-> [chapter |-> c, verse |-> a], end |-> [chapter |-> d, verse |-> b]]

\* The part of a range token before its first '-', or all of it.
StartSide(s) == IF find(s, "-") = 0 THEN s ELSE Before(s, find(s, "-"))

\* s begins with p.
StartsWith(s, p) == Len(s) >= Len(p) /\ SubSeq(s, 1, Len(p)) = p

\* C13: ChapterAndVerseRange parsing gives Full {c:a..c:a} for "c:a",
\* Full {c:a..c:b} for "c:a-b", Full {c:a..d:b} for "c:a-d:b",
\* Implicit {1:a..1:a} for "a" and Implicit {1:a..1:b} for "a-b"; a result is
\* Implicit exactly when the start side has no ':'.  (The StartsWith tests
\* only skip numbers the text cannot contain.)
C13_RangeShapes ==
  pc = "ChapterAndVerseRange" =>
    /\ \A c \in ShapeValues :
         StartsWith(text, Numeral(c)) =>
           /\ text = Numeral(c) => result = ErrData("ImplicitRange", CVRange(1, c, 1, c))
           /\ \A a \in ShapeValues :
                /\ text = Numeral(c) \o <<"-">> \o Numeral(a) =>
                     result = ErrData("ImplicitRange", CVRange(1, c, 1, a))
                /\ StartsWith(text, Numeral(c) \o <<":">> \o Numeral(a)) =>
                     /\ text = Numeral(c) \o <<":">> \o Numeral(a) =>
                          result = Ok(CVRange(c, a, c, a))
                     /\ \A b \in ShapeValues :
                          /\ text = Numeral(c) \o <<":">> \o Numeral(a) \o <<"-">> \o Numeral(b) =>
                               result = Ok(CVRange(c, a, c, b))
                          /\ \A d \in ShapeValues :
                               text = Numeral(c) \o <<":">> \o Numeral(a) \o <<"-">>
                                        \o Numeral(d) \o <<":">> \o Numeral(b) =>
                                 result = Ok(CVRange(c, a, d, b))
    /\ Produced(result) => (IsErr(result) <=> find(StartSide(text), ":") = 0)

C13_Witness ==
  /\ pc = "ChapterAndVerseRange"
  /\ text = <<"2", ":", "1", "-", "2">>
  /\ result = Ok(CVRange(2, 1, 2, 2))

\* Range tokens "a-d:b": a bare start verse and an end that states a chapter.
EndOnlyTokens ==
  {Numeral(a) \o <<"-">> \o Numeral(d) \o <<":">> \o Numeral(b) :
     a \in ShapeValues, d \in ShapeValues, b \in ShapeValues}

\* C14: a range token "a-d:b" is rejected with the InvalidFormat error
\* "Chapter specified at end only": ChapterAndVerseRange::parse gives None,
\* and BibleVerseRange parsing of "<abbrev> a-d:b" fails for every book.
C14_ChapterAtEndOnly ==
  /\ (pc = "ChapterAndVerseRange" /\ text \in EndOnlyTokens) =>
       result = Err("InvalidFormat", "Chapter specified at end only")
  /\ (pc = "ChapterAndVerseRange_parse" /\ text \in EndOnlyTokens) => result = None
  /\ (pc = "BibleVerseRange" /\ IsKnownAbbrev(LeadingToken(text)) /\ find(text, " ") # 0
        /\ After(text, find(text, " ")) \in EndOnlyTokens) =>
       (IsErr(result) /\ result.kind = "InvalidFormat")

C14_Witness ==
  /\ pc = "BibleVerseRange"
  /\ text = <<"O", "b", " ", "1", "-", "2", ":", "2">>
  /\ result = Err("InvalidFormat", "Chapter specified at end only")

\* What C15 states for a range part without a chapter, verses a..b, of a book.
ImplicitOutcome(book, a, b, r) ==
  IF BOOK_CHAPTERS[book] = 1
  THEN IF a <= b
       THEN r = Ok([book |-> book, range |-> CVRange(1, a, 1, b)])
       ELSE IsErr(r)
  ELSE IsErr(r) /\ r.kind = "NoChapterSpecified"

\* C15: "<abbrev> a-b" and "<abbrev> a" are accepted by BibleVerseRange
\* parsing exactly when the book has one chapter and the range is not empty;
\* for a book with more chapters they fail with NoChapterSpecified.
C15_ImplicitOnlySingleChapter ==
  (pc = "BibleVerseRange" /\ IsKnownAbbrev(LeadingToken(text)) /\ find(text, " ") # 0) =>
    \A a \in ShapeValues :
      /\ After(text, find(text, " ")) = Numeral(a) =>
           ImplicitOutcome(KnownBook(LeadingToken(text)), a, a, result)
      /\ \A b \in ShapeValues :
           After(text, find(text, " ")) = Numeral(a) \o <<"-">> \o Numeral(b) =>
             ImplicitOutcome(KnownBook(LeadingToken(text)), a, b, result)

C15_Witness ==
  /\ pc = "BibleVerseRange"
  /\ text = <<"J", "u", "d", "e", " ", "1", "-", "2">>
  /\ result = Ok([book |-> 65, range |-> CVRange(1, 1, 1, 2)])

\* C16: ChapterAndVerseRange::parse returns Some(Full(r)) exactly when
\* from_str returns Ok(r), Some(Implicit(r)) exactly when from_str returns
\* the ImplicitRange error carrying r, and None exactly when from_str
\* returns NotANumber or InvalidFormat.
C16_ParseSurfacesImplicit ==
  pc = "ChapterAndVerseRange_parse" =>
    /\ IsOk(saved.val) \/ IsErr(saved.val)
    /\ IsOk(saved.val) => result = [tag |-> "Some", val |-> [kind |-> "Full", range |-> saved.val.val]]
    /\ IsErr(saved.val) =>
         /\ saved.val.kind \in {"ImplicitRange", "NotANumber", "InvalidFormat"}
         /\ saved.val.kind = "ImplicitRange" =>
              result = [tag |-> "Some", val |-> [kind |-> "Implicit", range |-> saved.val.data]]
         /\ saved.val.kind \in {"NotANumber", "InvalidFormat"} => result = [tag |-> "None"]

C16_Witness ==
  /\ pc = "ChapterAndVerseRange_parse"
  /\ text = <<"1", "-", "2">>
  /\ saved = Some(ErrData("ImplicitRange", CVRange(1, 1, 1, 2)))
  /\ result = Some(Implicit(CVRange(1, 1, 1, 2)))

\* What C17 states for a text whose abbreviation is recognised as book.
VerseOutcome(book, s, r) ==
  /\ find(s, " ") = 0 => (IsErr(r) /\ r.kind = "NoChapterSpecified")
  /\ find(s, " ") # 0 =>
       \A v \in ShapeValues :
         /\ After(s, find(s, " ")) = Numeral(v) =>
              IF BOOK_CHAPTERS[book] = 1
              THEN r = Ok([book |-> book, chapter |-> 1, verse |-> v])
              ELSE IsErr(r) /\ r.kind = "NoChapterSpecified"
         /\ \A c \in ShapeValues :
              After(s, find(s, " ")) = Numeral(c) \o <<":">> \o Numeral(v) =>
                r = Ok([book |-> book, chapter |-> c, verse |-> v])

\* C17: BibleVerse parsing of a recognised abbreviation without a space fails
\* with NoChapterSpecified for every book; "<abbrev> v" gives chapter 1 and
\* verse v exactly when the book has one chapter and fails with
\* NoChapterSpecified otherwise; "<abbrev> c:v" gives the verse c:v of the
\* book.  The book is the table position for a canonical abbreviation, and
\* the recognised book for every other leading token that is recognised.
C17_VerseParseCases ==
  pc = "BibleVerse" =>
    /\ LeadingToken(text) \in Abbrevs =>
         VerseOutcome(KnownBook(LeadingToken(text)), text, result)
    /\ IsSome(parse_book_abbrev(text)) =>
         VerseOutcome(parse_book_abbrev(text).val + 1, text, result)

C17_Witness ==
  /\ pc = "BibleVerse"
  /\ text = <<"J", "u", "d", "e", " ", "2">>
  /\ result = Ok([book |-> 65, chapter |-> 1, verse |-> 2])

\* An integer literal whose value fits a u8.
IsU8Integer(s) == IsInteger(s) /\ IntegerValue(s) <= U8Max

\* C18: ChapterAndVerseOrVerse parsing of a token without ':' succeeds as
\* JustVerse(n) exactly when the token is an integer n in 0..=255; a token
\* with ':' succeeds as Both(c, v) exactly when the text before the first ':'
\* and the text after it are each such an integer; every other token fails
\* with NotANumber.
C18_ChapterAndVerseOrVerse ==
  pc = "ChapterAndVerseOrVerse" =>
    IF find(text, ":") = 0
    THEN IF IsU8Integer(text)
         THEN result = Ok([kind |-> "JustVerse", verse |-> IntegerValue(text)])
         ELSE IsErr(result) /\ result.kind = "NotANumber"
    ELSE IF IsU8Integer(Before(text, find(text, ":")))
              /\ IsU8Integer(After(text, find(text, ":")))
         THEN result = Ok([kind |-> "Both",
                           cv |-> [chapter |-> IntegerValue(Before(text, find(text, ":"))),
                                   verse |-> IntegerValue(After(text, find(text, ":")))]])
         ELSE IsErr(result) /\ result.kind = "NotANumber"

C18_Witness ==
  /\ pc = "ChapterAndVerseOrVerse"
  /\ text = <<"+", "1", ":", "0", "2">>
  /\ result = Ok(Both(ChapterAndVerse_new(1, 2)))

\* C19: the result of parse_book_abbrev depends only on the leading token:
\* for a text with a space it equals the result for the text cut before the
\* first space.
C19_OnlyLeadingToken ==
  (pc = "parse_book_abbrev" /\ find(text, " ") # 0) =>
    result = parse_book_abbrev(Before(text, find(text, " ")))

C19_Witness ==
  /\ pc = "parse_book_abbrev"
  /\ text = <<"1", "J", "n", " ", "1", ":", "1">>
  /\ result = Some(61)
  /\ parse_book_abbrev(<<"1", "J", "n">>) = Some(61)

\* C20: no parse call panics: BibleChapter, BibleVerse and BibleVerseRange
\* parsing return Ok or Err for every text; every index parse_book_abbrev
\* returns is in 0..66 (exclusive); and from_book_number gives a book, the
\* one with that number, only for a number in 1..=66.
C20_NoPanic ==
  /\ pc \in {"BibleChapter", "BibleVerse", "BibleVerseRange",
             "BibleVerse_reparsed", "BibleVerseRange_reparsed"} =>
       (result.tag \in {"Ok", "Err"} /\ result # Panic)
  /\ (pc = "parse_book_abbrev" /\ IsSome(result)) => result.val \in 0..(NumBooks - 1)
  /\ pc = "from_book_number" =>
       /\ result.tag \in {"Ok", "Err"}
       /\ IsOk(result) <=> (1 <= saved.val /\ saved.val <= NumBooks)
       /\ IsOk(result) => result.val = saved.val

C20_Witness ==
  /\ pc = "BibleChapter"
  /\ text = <<"R", "e", "v", " ", "1">>
  /\ result = Ok([book |-> NumBooks, chapter |-> 1])

\* C21: when the leading token is not recognised, the NoSuchBookError of
\* BibleChapter, BibleVerse and BibleVerseRange parsing carries that leading
\* token, the text up to its first space.
C21_NoSuchBookCarriesToken ==
  (pc \in {"BibleChapter", "BibleVerse", "BibleVerseRange"}
     /\ parse_book_abbrev(text) = None) =>
    /\ IsErr(result)
    /\ result.kind = "NoSuchBookError"
    /\ result.message = LeadingToken(text)

\* C22: from_book_number(n) is Ok exactly for n in 1..=66 and the book then
\* has book_number() = n; from_index(i) is Ok exactly for i in 0..66 and the
\* book then has index() = i and is from_book_number(i + 1); every other
\* argument, however large, gives an OutOfRangeError.
C22_BookNumberRoundTrip ==
  /\ pc = "from_book_number" =>
       IF 1 <= saved.val /\ saved.val <= NumBooks
       THEN IsOk(result) /\ book_number(result.val) = saved.val
       ELSE IsErr(result) /\ result.kind = "OutOfRangeError"
  /\ pc = "from_index" =>
       IF 0 <= saved.val /\ saved.val < NumBooks
       THEN /\ IsOk(result)
            /\ index(result.val) = saved.val
            /\ result = from_book_number(saved.val + 1)
       ELSE IsErr(result) /\ result.kind = "OutOfRangeError"

C22_Witness ==
  /\ pc = "from_index"
  /\ saved = Some(NumBooks - 1)
  /\ IsOk(result)
  /\ index(result.val) = NumBooks - 1

\* C23: BibleBook::parse gives Some(b) for the abbreviation and for the full
\* name of every book b, and None for a text that is neither: its leading
\* token is no known abbreviation (a table entry or "SoS") and the text is no
\* full name.
C23_BookParse ==
  pc = "BibleBook" =>
    /\ \A b \in 1..NumBooks :
         (text = BOOK_ABBREVS[b] \/ text = BOOK_NAMES[b]) => result = Some(b)
    /\ (~IsKnownAbbrev(LeadingToken(text)) /\ text \notin Names) => result = None

\* The text C24 states for a range of a book: verses only for a
\* single-chapter book, one chapter prefix when both ends are in one chapter,
\* both ends in full otherwise, and no "-end" part for a single point.
Rendering(book, start, end) ==
  BOOK_ABBREVS[book] \o <<" ">> \o
    (IF BOOK_CHAPTERS[book] = 1
     THEN IF start = end
          THEN Numeral(start.verse)
          ELSE Numeral(start.verse) \o <<"-">> \o Numeral(end.verse)
     ELSE IF start = end
          THEN Numeral(start.chapter) \o <<":">> \o Numeral(start.verse)
     ELSE IF start.chapter = end.chapter
          THEN Numeral(start.chapter) \o <<":">> \o Numeral(start.verse)
                 \o <<"-">> \o Numeral(end.verse)
     ELSE Numeral(start.chapter) \o <<":">> \o Numeral(start.verse)
            \o <<"-">> \o Numeral(end.chapter) \o <<":">> \o Numeral(end.verse))

\* C24: a BibleVerseRange with start <= end renders as "abbrev v" or
\* "abbrev c:v" for a single point, "abbrev sv-ev" for a single-chapter book,
\* "abbrev c:sv-ev" for one chapter of a multi-chapter book and
\* "abbrev sc:sv-ec:ev" across chapters.
C24_RangeRendering ==
  (pc = "BibleVerseRange_new_shown" /\ CVLessEq(result.range.start, result.range.end)) =>
    text = Rendering(result.book, result.range.start, result.range.end)

C24_Witness ==
  /\ pc = "BibleVerseRange_new_shown"
  /\ result = BibleVerseRange_new(1, 1, 2, 1, 10)
  /\ text = <<"G", "e", " ", "1", ":", "2", "-", "1", "0">>

\* C29: contains(v) is true exactly when v is of the range's book and
\* start <= (v.chapter, v.verse) <= end, both ends included; a verse of
\* another book is never contained.
C29_Contains ==
  pc = "contains" =>
    LET r == saved.val.range
        v == saved.val.verse
        point == [chapter |-> v.chapter, verse |-> v.verse]
    IN /\ result = (/\ v.book = r.book
                    /\ CVLessEq(r.range.start, point)
                    /\ CVLessEq(point, r.range.end))
       /\ v.book # r.book => result = FALSE

C29_Witness ==
  /\ pc = "contains"
  /\ saved.val.range = BibleVerseRange_new(1, 1, 2, 2, 1)
  /\ saved.val.verse = BibleVerse_new(1, 2, 1)
  /\ result = TRUE

\* The part of a text after its first space holds a "-".
HasDashAfterSpace(s) ==
  \E i \in 1..Len(s) : s[i] = "-" /\ \E j \in 1..(i - 1) : s[j] = " "

\* The verses a range is asked about: every book tried, with chapters and
\* verses around the small ones.
ProbeVerses ==
  {BibleVerse_new(b, c, v) : b \in KeyBooks, c \in 0..(MaxChapter + 1),
                             v \in 0..(MaxVerse + 1)}

\* C30: when BibleVerse::parse(t) gives a verse v, BibleVerseRange::parse(t)
\* gives the range converted from v, which contains v and no other verse; and
\* when the part of t after the first space has no "-", the range parser
\* succeeds only if the verse parser does.
C30_VerseAndRangeAgree ==
  pc = "BibleVerse_and_range" =>
    /\ IsOk(saved.val.verse) =>
         /\ result = Ok(saved.val.converted.val)
         /\ BibleVerseRange_contains(saved.val.converted.val, saved.val.verse.val)
         /\ \A w \in ProbeVerses :
              BibleVerseRange_contains(saved.val.converted.val, w)
                => w = saved.val.verse.val
    /\ (~HasDashAfterSpace(text) /\ IsOk(result)) => IsOk(saved.val.verse)

C30_Witness ==
  /\ pc = "BibleVerse_and_range"
  /\ text = <<"G", "e", " ", "1", ":", "2">>
  /\ saved.val.verse = Ok(BibleVerse_new(1, 1, 2))
  /\ result = Ok(BibleVerseRange_new(1, 1, 2, 1, 2))

\* The order of two triples of numbers, first difference deciding.
Lexicographic(a, b) ==
  IF a[1] # b[1] THEN (IF a[1] < b[1] THEN "Less" ELSE "Greater")
  ELSE IF a[2] # b[2] THEN (IF a[2] < b[2] THEN "Less" ELSE "Greater")
  ELSE IF a[3] # b[3] THEN (IF a[3] < b[3] THEN "Less" ELSE "Greater")
  ELSE "Equal"

Reverse(ordering) ==
  IF ordering = "Less" THEN "Greater"
  ELSE IF ordering = "Greater" THEN "Less" ELSE "Equal"

\* The place of a book in the canonical table of names.
TablePlace(book) == CHOOSE i \in 1..NumBooks : BOOK_NAMES[i] = name(book)

\* C26: BibleVerse::cmp is the lexicographic order on (book number, chapter,
\* verse); it is total, it is Equal exactly for equal verses, and the order
\* of two books is the order of their places in the canonical table.
C26_VerseOrder ==
  /\ pc = "BibleVerse_cmp" =>
       LET a == saved.val.self
           b == saved.val.other
       IN /\ result = Lexicographic(<<book_number(a.book), a.chapter, a.verse>>,
                                    <<book_number(b.book), b.chapter, b.verse>>)
          /\ BibleVerse_cmp(b, a) = Reverse(result)
          /\ (result = "Equal") <=> (a = b)
  /\ pc = "BibleBook_cmp" =>
       LET i == TablePlace(saved.val.self)
           j == TablePlace(saved.val.other)
       IN result = IF i < j THEN "Less" ELSE IF i > j THEN "Greater" ELSE "Equal"

C26_Witness ==
  /\ pc = "BibleVerse_cmp"
  /\ saved.val.self = BibleVerse_new(1, 1, 10)
  /\ saved.val.other = BibleVerse_new(1, 2, 1)
  /\ result = "Less"

\* C27: a book is of the Old Testament exactly when its number is in 1..=39
\* and of the New Testament exactly when it is in 40..=66, which makes 39 Old
\* Testament books, the last of them Malachi, and 27 New Testament books.
C27_Testaments ==
  pc = "testament" =>
    /\ result.old = (1 <= book_number(saved.val) /\ book_number(saved.val) <= 39)
    /\ result.new = (40 <= book_number(saved.val) /\ book_number(saved.val) <= 66)
    /\ Cardinality({b \in 1..NumBooks : is_old_testament(b)}) = 39
    /\ Cardinality({b \in 1..NumBooks : is_new_testament(b)}) = 27
    /\ LET last == CHOOSE b \in 1..NumBooks :
                     /\ is_old_testament(b)
                     /\ \A o \in 1..NumBooks : is_old_testament(o) => o <= b
       IN name(last) = <<"M", "a", "l", "a", "c", "h", "i">>

C27_Witness ==
  /\ pc = "testament"
  /\ name(saved.val) = <<"M", "a", "l", "a", "c", "h", "i">>
  /\ result = [old |-> TRUE, new |-> FALSE]

\* C25: for every book b, BibleBookOrChapter::parse(b.abbrev()) renders as
\* b.abbrev(); for every chapter c the book has, "abbrev c" parses and
\* renders as "abbrev c"; and the rendering of BibleChapter::new(b, c) parses
\* back to that chapter.
C25_BookOrChapterRoundTrip ==
  /\ pc = "BibleBookOrChapter" =>
       /\ \A b \in 1..NumBooks : text = BOOK_ABBREVS[b] => result = Some(Book(b))
       /\ text \in ChapterTexts => (result # None /\ result.val.kind = "Chapter")
  /\ pc = "BibleBookOrChapter_shown" =>
       (saved.val.source \in Abbrevs \cup ChapterTexts => text = saved.val.source)
  /\ pc = "BibleChapter_reparsed" =>
       /\ result = Some(Chapter(saved.val))
       /\ BibleChapter_parse(text) = saved

C25_Witness ==
  /\ pc = "BibleBookOrChapter_shown"
  /\ saved.val.source = <<"R", "o", " ", "1", "2">>
  /\ saved.val.val = Chapter([book |-> 45, chapter |-> 12])
  /\ text = <<"R", "o", " ", "1", "2">>

\* C28: BibleBook::iter() yields exactly 66 books in canonical order, the
\* k-th item (from 0) having index() = k, and then ends; a later call to
\* iter() starts again from Genesis whatever an earlier iterator has done.
C28_Iter ==
  /\ pc # "iter_panicked"
  /\ pc \in {"iter", "iter_done"} =>
       LET yielded == saved.val.yielded
       IN /\ Len(yielded) <= 66
          /\ \A k \in 1..Len(yielded) : index(yielded[k]) = k - 1
          /\ pc = "iter_done" <=> (Len(yielded) = 66 /\ result = None)
          /\ (pc = "iter" /\ Len(yielded) > 0) => result = Some(yielded[Len(yielded)])

C28_Witness ==
  /\ pc = "iter_done"
  /\ saved.val.calls = MaxIterCalls
  /\ Len(saved.val.yielded) = 66
  /\ name(saved.val.yielded[1]) = <<"G", "e", "n", "e", "s", "i", "s">>

====
